---- MODULE Spec2Model ----
(***************************************************************************)
(* Model of src/fabric/generator.py: AttentionBasedGenerator.generate, the *)
(* hidden-state cache pass (get_unet_hidden_states) and the injection pass *)
(* (unet_forward_with_cached_hidden_states) over the self-attention        *)
(* modules (attn1) of the denoising network.                               *)
(*                                                                         *)
(* Tensors are abstracted to their provenance and their sequence length;   *)
(* weights are exact rationals kept as numerators over NumDown, so 1.0 is  *)
(* the numerator One.                                                      *)
(***************************************************************************)
EXTENDS Integers, Sequences, FiniteSets, TLC

\* ---------------------------------------------------------------- bounds
NumDown == 1
MaxSteps == 2
MaxImages == 2
MaxRefs == 1
MaxFailures == 1
MaxCachedLen == 3
MaxSchedSteps == 20
MaxDown == 3
MaxPairWeight == 2
MaxTimestep == 1

\* input sets
FracSet == {0, 50, 100}
SchedFracSet == {0, 25, 33, 50, 66, 75, 100}
WeightSet == {0, 1}
NegScaleSet == {1}
BottleneckScaleSet == {1, 2}
PairSet == {<<1, 1>>, <<0, 2>>}

\* ------------------------------------------------------- network layout
\* down_blocks + [mid_block] + up_blocks, one BasicTransformerBlock each
NumBlocks == 2 * NumDown + 1
Blocks == 1..NumBlocks
One == NumDown

Depth(u) == IF u <= NumDown THEN u - 1
            ELSE IF u = NumDown + 1 THEN NumDown
            ELSE 2 * NumDown + 1 - u

RECURSIVE Pow2(_)
Pow2(e) == IF e = 0 THEN 1 ELSE 2 * Pow2(e - 1)

\* sequence length of the hidden state entering attn1 of block u
SeqLen(u) == Pow2(NumDown - Depth(u))

\* torch.linspace(a, b, steps=n+1)[:-1], numerators over NumDown
LocalWeights(ws) == [k \in 0..(NumDown - 1) |-> NumDown * ws[1] + k * (ws[2] - ws[1])]

\* the weight zipped to block u (lines 272-273): the ramp, the end value, the ramp reversed
BlockWeight(ws, u) ==
    IF u <= NumDown THEN LocalWeights(ws)[u - 1]
    ELSE IF u = NumDown + 1 THEN NumDown * ws[2]
    ELSE LocalWeights(ws)[NumDown - 1 - (u - NumDown - 2)]

\* torch.linspace(a, b, steps), as numerators over steps - 1
Linspace(a, b, steps) == [k \in 1..steps |-> (steps - 1) * a + (k - 1) * (b - a)]

\* s[:-1] and s[::-1]
DropLast(s) == SubSeq(s, 1, Len(s) - 1)
Reversed(s) == [k \in 1..Len(s) |-> s[Len(s) + 1 - k]]

\* lines 263-268 for a network with n down blocks, numerators over n
LocalWeightsOf(ws, n) == DropLast(Linspace(ws[1], ws[2], n + 1))

ZippedWeightsNoMirror(ws, n) ==
    LocalWeightsOf(ws, n) \o <<n * ws[2]>> \o LocalWeightsOf(ws, n)

\* local_weights + [weights[1]] + local_weights[::-1]   (lines 272-273)
ZippedWeights(ws, n) ==
    LocalWeightsOf(ws, n) \o <<n * ws[2]>> \o Reversed(LocalWeightsOf(ws, n))

\* ------------------------------------------------------------ scheduling
PyRoundHalfUp(p, q) == IF 2 * (p % q) < q THEN p \div q ELSE (p \div q) + 1

\* Python round() of the non-negative rational p/q: ties go to the even
PyRound(p, q) ==
    IF 2 * (p % q) < q THEN p \div q
    ELSE IF 2 * (p % q) > q THEN (p \div q) + 1
    ELSE IF (p \div q) % 2 = 0 THEN p \div q ELSE (p \div q) + 1

\* round(len(timesteps) * fraction), fraction in hundredths
RefIdx(n, frac) == PyRound(n * frac, 100)

BaseWeightLt(idx, lo, hi, minw, maxw) ==
    IF idx >= lo /\ idx < hi THEN maxw ELSE minw

BaseWeight(idx, lo, hi, minw, maxw) ==
    IF idx >= lo /\ idx <= hi THEN maxw ELSE minw

\* ------------------------------------------------------------- tensors
NoTensor == [ep |-> -1, i |-> -1, k |-> 0, len |-> 0]
NoList == [present |-> FALSE, items |-> <<>>]
SomeList(s) == [present |-> TRUE, items |-> s]
NoAttn == [mode |-> "none", cache |-> "absent", popped |-> NoTensor,
           qlen |-> 0, kvlen |-> 0, w |-> <<>>, bw |-> 0]
NoVisit == [u |-> 0, pos |-> NoAttn, neg |-> NoAttn]
NoClosure == [kind |-> "none", hs |-> <<>>, pos |-> NoList, neg |-> NoList,
              pos_weights |-> <<0, 0>>, neg_weights |-> <<0, 0>>]
NoFx == [seeded |-> FALSE, noise_sampled |-> FALSE, refs_encoded |-> FALSE,
         prompts_encoded |-> FALSE, unet_called |-> FALSE]
ORIG == 0
ABSENT == -1

VARIABLES
    pc,                 \* position of the caller
    n_images, prompt, negative_prompt, n_pos, n_neg, denoising_steps,
    feedback_start, feedback_end, min_weight, max_weight,
    neg_scale, pos_bottleneck_scale, neg_bottleneck_scale,
    ref_start_idx, ref_end_idx, i, weight, pos_ws, neg_ws,
    cached_pos_hs, cached_neg_hs,
    imgs,               \* the returned list (batch positions)
    forward, old_forward,   \* attn1.forward / attn1.old_forward per block
    clos,               \* the new_forward closures and the lists they captured
    failures,           \* passes that raised so far
    pass, visited,      \* the running network pass and the blocks it visited
    err,                \* the exception that ended the last call
    lastVisit,          \* the attention calls of the last block visit
    fx,                 \* what the running generate call has computed so far
    trace,              \* phases of the running generate call
    n_down,             \* len(self.unet.down_blocks)
    timestep, pos_weights, neg_weights,     \* arguments of the injection pass
    block,              \* blocks the patch loop has gone through
    pos_weight, neg_weight  \* the defaults bound into new_forward, per block

inputs == <<n_images, prompt, negative_prompt, n_pos, n_neg, denoising_steps,
            feedback_start, feedback_end, min_weight, max_weight,
            neg_scale, pos_bottleneck_scale, neg_bottleneck_scale>>
locals == <<ref_start_idx, ref_end_idx, i, weight, pos_ws, neg_ws,
            cached_pos_hs, cached_neg_hs, imgs>>
modules == <<forward, old_forward, clos, failures>>
passvars == <<pass, visited, err, lastVisit>>
patch == <<n_down, timestep, pos_weights, neg_weights, block, pos_weight, neg_weight>>
vars == <<pc, inputs, locals, modules, passvars, fx, trace, patch>>

\* no patch loop is running
NoPatch ==
    /\ timestep = 0 /\ pos_weights = <<0, 0>> /\ neg_weights = <<0, 0>>
    /\ block = 0 /\ pos_weight = <<>> /\ neg_weight = <<>>

Unpatched == \A u \in Blocks : forward[u] = ORIG /\ old_forward[u] = ABSENT

\* the closure a pass that patches now would create
cur == failures + 1

Init ==
    /\ pc = "Idle"
    /\ n_images = 1 /\ prompt = 0 /\ negative_prompt = 0
    /\ n_pos = 0 /\ n_neg = 0 /\ denoising_steps = 0
    /\ feedback_start = 0 /\ feedback_end = 0
    /\ min_weight = 0 /\ max_weight = 0
    /\ neg_scale = 1 /\ pos_bottleneck_scale = 1 /\ neg_bottleneck_scale = 1
    /\ ref_start_idx = 0 /\ ref_end_idx = 0 /\ i = 0 /\ weight = 0
    /\ pos_ws = <<0, 0>> /\ neg_ws = <<0, 0>>
    /\ cached_pos_hs = NoList /\ cached_neg_hs = NoList
    /\ imgs = <<>>
    /\ forward = [u \in Blocks |-> ORIG]
    /\ old_forward = [u \in Blocks |-> ABSENT]
    /\ clos = [c \in 1..MaxFailures |-> NoClosure]
    /\ failures = 0
    /\ pass = "none" /\ visited = 0 /\ err = "none"
    /\ lastVisit = NoVisit
    /\ fx = NoFx
    /\ trace = <<>>
    /\ n_down = NumDown /\ NoPatch

\* a caller may make a new call when the previous one is over
CanCall == pc = "Idle" /\ failures < MaxFailures

\* ---------------------------------------------------------------- generate
\* lines 372-395: seed, initial noise, reference latents.  The arguments
\* that are first read after the asserts are drawn in GenConditioning.
GenInit ==
    /\ CanCall
    /\ \E ni \in 1..MaxImages, p \in 0..MaxImages, np \in 0..MaxImages,
          lk \in 0..MaxRefs, dl \in 0..MaxRefs, seedGiven \in BOOLEAN :
        /\ n_images' = ni
        /\ prompt' = p              \* 0: a str, else the length of the list
        /\ negative_prompt' = np
        /\ n_pos' = lk /\ n_neg' = dl
        /\ fx' = [NoFx EXCEPT !.seeded = seedGiven, !.noise_sampled = TRUE,
                              !.refs_encoded = (lk > 0 \/ dl > 0)]
    /\ pc' = "Validate"
    /\ trace' = <<"Init">>
    /\ UNCHANGED <<denoising_steps, feedback_start, feedback_end, min_weight,
                   max_weight, neg_scale, pos_bottleneck_scale,
                   neg_bottleneck_scale, locals, modules, passvars>>
    /\ UNCHANGED patch

\* lines 397-404: the two asserts
GenValidate ==
    /\ pc = "Validate"
    /\ IF prompt # 0 /\ prompt # n_images
       THEN /\ pc' = "ArgError" /\ err' = "AssertionError"
            /\ UNCHANGED <<prompt, negative_prompt>>
       ELSE IF negative_prompt # 0 /\ negative_prompt # n_images
       THEN /\ pc' = "ArgError" /\ err' = "AssertionError"
            /\ prompt' = n_images
            /\ UNCHANGED negative_prompt
       ELSE /\ pc' = "Conditioning" /\ err' = "none"
            /\ prompt' = n_images /\ negative_prompt' = n_images
    /\ UNCHANGED <<n_images, n_pos, n_neg, denoising_steps, feedback_start,
                   feedback_end, min_weight, max_weight, neg_scale,
                   pos_bottleneck_scale, neg_bottleneck_scale,
                   locals, modules, pass, visited, lastVisit, fx, trace>>
    /\ UNCHANGED patch

\* lines 406-421: prompt embeddings, timesteps, window indices
Conditioning(StepSet, Fracs, Scales) ==
    /\ pc = "Conditioning"
    /\ \E ds \in StepSet, fs \in Fracs, fe \in Fracs,
          mn \in WeightSet, mx \in WeightSet, ns \in NegScaleSet,
          pb \in Scales, nb \in Scales :
        /\ denoising_steps' = ds
        /\ feedback_start' = fs /\ feedback_end' = fe
        /\ min_weight' = mn /\ max_weight' = mx
        /\ neg_scale' = ns /\ pos_bottleneck_scale' = pb /\ neg_bottleneck_scale' = nb
        /\ ref_start_idx' = RefIdx(ds, fs)
        /\ ref_end_idx' = RefIdx(ds, fe)
    /\ fx' = [fx EXCEPT !.prompts_encoded = TRUE]
    /\ i' = 0
    /\ trace' = Append(trace, "Conditioning")
    /\ pc' = "LoopHead"
    /\ UNCHANGED <<n_images, prompt, negative_prompt, n_pos, n_neg,
                   weight, pos_ws, neg_ws, cached_pos_hs, cached_neg_hs,
                   imgs, modules, passvars>>
    /\ UNCHANGED patch

GenConditioning == Conditioning(0..MaxSteps, FracSet, BottleneckScaleSet)

\* lines 437-442 with the base weight w
SetWeights(w) ==
    /\ weight' = w
    /\ pos_ws' = <<w, w * pos_bottleneck_scale>>
    /\ neg_ws' = <<w * neg_scale, w * neg_scale * neg_bottleneck_scale>>

MoreTimestepsButLast == i + 1 < denoising_steps

\* for i, t in enumerate(timesteps) (line 424)
MoreTimesteps == i < denoising_steps

\* lines 424-442: the next timestep, its base weight and weight pairs
GenLoopHead ==
    /\ pc = "LoopHead"
    /\ IF MoreTimesteps
       THEN /\ SetWeights(BaseWeight(i, ref_start_idx, ref_end_idx,
                                     min_weight, max_weight))
            /\ pc' = "Branch"
       ELSE /\ pc' = "Decode"
            /\ UNCHANGED <<weight, pos_ws, neg_ws>>
    /\ UNCHANGED <<inputs, ref_start_idx, ref_end_idx, i, cached_pos_hs,
                   cached_neg_hs, imgs, modules, passvars, fx, trace>>
    /\ UNCHANGED patch

\* ------------------------------------------------- the attention modules
\* weights.clone().repeat(1, 1 + C // L) with [:, L:] = w   (lines 300-303)
WeightVecOffByOne(L, C, w) == [j \in 1..(L * (1 + C \div L)) |-> IF j < L THEN One ELSE w]

WeightVec(L, C, w) == [j \in 1..(L * (1 + C \div L)) |-> IF j <= L THEN One ELSE w]

HalfList(c, h, cl) == IF h = "pos" THEN cl[c].pos ELSE cl[c].neg
HalfPair(c, h, cl) == IF h = "pos" THEN cl[c].pos_weights ELSE cl[c].neg_weights
PopHalfLast(c, h, cl) ==
    IF h = "pos" THEN [cl EXCEPT ![c].pos.items = SubSeq(@, 1, Len(@) - 1)]
                 ELSE [cl EXCEPT ![c].neg.items = SubSeq(@, 1, Len(@) - 1)]

\* list.pop(0)
PopHalf(c, h, cl) ==
    IF h = "pos" THEN [cl EXCEPT ![c].pos.items = Tail(@)]
                 ELSE [cl EXCEPT ![c].neg.items = Tail(@)]

\* attn_with_weights (lines 58-136) on query q with keys/values of q + cached
\* tensor t: it needs one weight per key position
WeightedAttn(c, h, cl, t, L, bw, w) ==
    [ok  |-> Len(w) = L + t.len,
     err |-> IF Len(w) = L + t.len THEN "none" ELSE "ShapeError",
     cl  |-> PopHalf(c, h, cl),
     att |-> [mode |-> "weighted", cache |-> "nonempty", popped |-> t,
              qlen |-> L, kvlen |-> L + t.len, w |-> w, bw |-> bw]]

\* lines 294-309 / 314-329 once the tensor t is popped
InjectPopped(c, u, h, cl, t, bw) ==
    WeightedAttn(c, h, cl, t, SeqLen(u), bw, WeightVec(SeqLen(u), t.len, bw))

\* lines 293-309 / 313-329 when the half's cache is not None: pop(0), cat,
\* weights, attn_with_weights
InjectPresentHalf(c, u, h, cl) ==
    IF HalfList(c, h, cl).items = <<>>
    THEN [ok |-> FALSE, err |-> "IndexError", cl |-> cl,
          att |-> [NoAttn EXCEPT !.mode = "error", !.cache = "empty"]]
    ELSE InjectPopped(c, u, h, cl, Head(HalfList(c, h, cl).items),
                      BlockWeight(HalfPair(c, h, cl), u))

OldResult(ok, e, cl) ==
    [ok |-> ok, err |-> e, cl |-> cl,
     mode |-> IF ok THEN "stale" ELSE "error"]

OldAfterNeg(N) == OldResult(N.ok, N.err, N.cl)

OldAfterPos(w, u, P) ==
    IF ~P.ok THEN OldResult(FALSE, P.err, P.cl)
    ELSE IF ~P.cl[w].neg.present THEN OldResult(FALSE, "ValueError", P.cl)
    ELSE OldAfterNeg(InjectPresentHalf(w, u, "neg", P.cl))

\* self.old_forward(...) called from inside a new_forward (lines 234, 311, 331):
\* the attribute is read at call time.  A new_forward left behind by a pass
\* that raised calls self.old_forward again unless both of its caches are
\* present, so reaching it through old_forward never returns.
CallOldAs(w, u, cl) ==
    IF w = ABSENT THEN OldResult(FALSE, "AttributeError", cl)
    ELSE IF w = ORIG
    THEN [ok |-> TRUE, err |-> "none", cl |-> cl, mode |-> "plain"]
    ELSE IF cl[w].kind = "cache" THEN OldResult(FALSE, "RecursionError", cl)
    ELSE IF ~cl[w].pos.present THEN OldResult(FALSE, "ValueError", cl)
    ELSE OldAfterPos(w, u, InjectPresentHalf(w, u, "pos", cl))

CallOld(u, cl) == CallOldAs(old_forward[u], u, cl)

PlainHalf(u, r) ==
    [ok |-> r.ok, err |-> r.err, cl |-> r.cl,
     att |-> [NoAttn EXCEPT !.mode = r.mode, !.qlen = SeqLen(u), !.kvlen = SeqLen(u)]]

\* one half of the injecting new_forward (lines 293-311 / 313-331)
InjectHalf(c, u, h, cl) ==
    IF HalfList(c, h, cl).present
    THEN InjectPresentHalf(c, u, h, cl)
    ELSE PlainHalf(u, CallOld(u, cl))

\* the tensor the capturing new_forward appends (line 233)
Captured(u) == [ep |-> failures, i |-> i, k |-> visited + 1, len |-> SeqLen(u)]

\* a capture list nobody can read any more is not tracked
AppendCaptured(v, u, cl) ==
    IF v = cur /\ pass = "cache"
    THEN [cl EXCEPT ![v].hs = Append(@, Captured(u))] ELSE cl

VisitResult(ok, e, cl, pos, neg) ==
    [ok |-> ok, err |-> e, cl |-> cl, pos |-> pos, neg |-> neg]

CaptureAfterOld(r) ==
    VisitResult(r.ok, r.err, r.cl, [NoAttn EXCEPT !.mode = r.mode],
                [NoAttn EXCEPT !.mode = r.mode])

InjectAfterNeg(P, N) == VisitResult(N.ok, N.err, N.cl, P.att, N.att)

InjectAfterPos(v, u, P) ==
    IF ~P.ok THEN VisitResult(FALSE, P.err, P.cl, P.att, NoAttn)
    ELSE InjectAfterNeg(P, InjectHalf(v, u, "neg", P.cl))

\* module.attn1.forward(hidden_states) of block u, whose forward is v
VisitAs(v, u, cl) ==
    IF v = ORIG
    THEN VisitResult(TRUE, "none", cl, [NoAttn EXCEPT !.mode = "plain"],
                     [NoAttn EXCEPT !.mode = "plain"])
    ELSE IF cl[v].kind = "cache"
    THEN CaptureAfterOld(CallOld(u, AppendCaptured(v, u, cl)))
    ELSE InjectAfterPos(v, u, InjectHalf(v, u, "pos", cl))

Visit(u, cl) == VisitAs(forward[u], u, cl)

\* lines 229-237 and 270-337: every attn1 keeps its forward as old_forward
\* and gets the new closure
PatchedForward == [u \in Blocks |-> cur]
PatchedOld == [u \in Blocks |-> forward[u]]

\* lines 243-246 and 342-345
RestoredForwardButLast ==
    [u \in Blocks |-> IF u = NumBlocks THEN forward[u] ELSE old_forward[u]]

RestoredForward == [u \in Blocks |-> old_forward[u]]
RestoredOld == [u \in Blocks |-> ABSENT]

\* ------------------------------------------------------ the network passes
\* get_unet_hidden_states up to the call of self.unet (lines 228-240)
BeginCachePass ==
    /\ old_forward' = PatchedOld
    /\ forward' = PatchedForward
    /\ clos' = [clos EXCEPT ![cur] = [NoClosure EXCEPT !.kind = "cache"]]
    /\ pass' = "cache" /\ visited' = 0
    /\ lastVisit' = NoVisit
    /\ UNCHANGED failures

\* unet_forward_with_cached_hidden_states up to the call of self.unet
\* (lines 260-339) with the given caches and weight pairs
BeginInjectPass(cp, cn, pw, nw) ==
    /\ IF ~cp.present /\ ~cn.present
       THEN /\ pass' = "direct"
            /\ UNCHANGED <<forward, old_forward, clos>>
       ELSE /\ pass' = "inject"
            /\ old_forward' = PatchedOld
            /\ forward' = PatchedForward
            /\ clos' = [clos EXCEPT ![cur] =
                          [kind |-> "inject", hs |-> <<>>, pos |-> cp, neg |-> cn,
                           pos_weights |-> pw, neg_weights |-> nw]]
    /\ visited' = 0
    /\ lastVisit' = NoVisit
    /\ UNCHANGED failures

UseFeedbackAnyWeight == n_pos + n_neg > 0

\* z_ref.size(0) > 0 and weight > 0 (line 444)
UseFeedback == n_pos + n_neg > 0 /\ weight > 0

\* lines 444-457: references exist and the weight is positive
GenCacheBegin ==
    /\ pc = "Branch"
    /\ UseFeedback
    /\ BeginCachePass
    /\ fx' = [fx EXCEPT !.unet_called = TRUE]
    /\ trace' = Append(trace, "ReferenceCache")
    /\ pc' = "InCache"
    /\ UNCHANGED <<inputs, locals, err>>
    /\ UNCHANGED patch

\* lines 476-477
GenNoCache ==
    /\ pc = "Branch"
    /\ ~UseFeedback
    /\ cached_pos_hs' = NoList /\ cached_neg_hs' = NoList
    /\ pc' = "CallUnet"
    /\ UNCHANGED <<inputs, ref_start_idx, ref_end_idx, i, weight, pos_ws, neg_ws,
                   imgs, modules, passvars, fx, trace>>
    /\ UNCHANGED patch

\* the network reaches the next self-attention module, whose call gives r
BlockVisitWith(r) ==
    /\ lastVisit' = [u |-> visited + 1, pos |-> r.pos, neg |-> r.neg]
    /\ clos' = r.cl
    /\ IF pass = "inject"
       THEN /\ cached_pos_hs' = r.cl[cur].pos
            /\ cached_neg_hs' = r.cl[cur].neg
       ELSE UNCHANGED <<cached_pos_hs, cached_neg_hs>>
    /\ IF r.ok
       THEN /\ visited' = visited + 1
            /\ UNCHANGED <<pc, pass, err, failures>>
       ELSE /\ pc' = "Raised" /\ pass' = "none" /\ err' = r.err
            /\ failures' = failures + 1
            /\ UNCHANGED visited

BlockVisit ==
    /\ pass # "none" /\ visited < NumBlocks
    /\ BlockVisitWith(Visit(visited + 1, clos))
    /\ UNCHANGED <<inputs, ref_start_idx, ref_end_idx, i, weight, pos_ws, neg_ws,
                   imgs, forward, old_forward, fx, trace>>
    /\ UNCHANGED patch

\* the network forward pass raises (any collaborator error inside self.unet)
UnetRaise ==
    /\ pass # "none"
    /\ pc' = "Raised" /\ pass' = "none" /\ err' = "NetworkError"
    /\ failures' = failures + 1
    /\ UNCHANGED <<inputs, locals, forward, old_forward, clos, visited,
                   lastVisit, fx, trace>>
    /\ UNCHANGED patch

\* hs.split / view / expand (lines 459-475)
SplitCache(hs, n) ==
    IF n = 0 THEN NoList
    ELSE SomeList([j \in 1..Len(hs) |-> [hs[j] EXCEPT !.len = n * @]])

\* lines 240-248, then 459-475
GenCacheReturn ==
    /\ pc = "InCache" /\ pass = "cache" /\ visited = NumBlocks
    /\ forward' = RestoredForward
    /\ old_forward' = RestoredOld
    /\ cached_pos_hs' = SplitCache(clos[cur].hs, n_pos)
    /\ cached_neg_hs' = SplitCache(clos[cur].hs, n_neg)
    /\ clos' = [clos EXCEPT ![cur] = NoClosure]
    /\ pass' = "none"
    /\ pc' = "CallUnet"
    /\ UNCHANGED <<inputs, ref_start_idx, ref_end_idx, i, weight, pos_ws, neg_ws,
                   imgs, failures, visited, err, lastVisit, fx, trace>>
    /\ UNCHANGED patch

\* line 479 into unet_forward_with_cached_hidden_states
GenUnetBegin ==
    /\ pc = "CallUnet"
    /\ BeginInjectPass(cached_pos_hs, cached_neg_hs, pos_ws, neg_ws)
    /\ fx' = [fx EXCEPT !.unet_called = TRUE]
    /\ trace' = Append(trace, "Denoise")
    /\ pc' = "InUnet"
    /\ UNCHANGED <<inputs, locals, err>>
    /\ UNCHANGED patch

\* lines 339-347 (or 261), then guidance (lines 489-491)
GenUnetReturn ==
    /\ pc = "InUnet" /\ pass \in {"inject", "direct"} /\ visited = NumBlocks
    /\ IF pass = "inject"
       THEN /\ forward' = RestoredForward
            /\ old_forward' = RestoredOld
            /\ clos' = [clos EXCEPT ![cur] = NoClosure]
       ELSE UNCHANGED <<forward, old_forward, clos>>
    /\ pass' = "none"
    /\ pc' = "SchedulerStep"
    /\ UNCHANGED <<inputs, locals, failures, visited, err, lastVisit, fx, trace>>
    /\ UNCHANGED patch

\* lines 492-497
GenSchedulerStep ==
    /\ pc = "SchedulerStep"
    /\ i' = i + 1
    /\ trace' = Append(trace, "SchedulerStep")
    /\ pc' = "LoopHead"
    /\ UNCHANGED <<inputs, ref_start_idx, ref_end_idx, weight, pos_ws, neg_ws,
                   cached_pos_hs, cached_neg_hs, imgs, modules, passvars, fx>>
    /\ UNCHANGED patch

\* lines 499-502
GenDecode ==
    /\ pc = "Decode"
    /\ imgs' = [j \in 1..n_images |-> j]
    /\ trace' = Append(trace, "Decode")
    /\ pc' = "Done"
    /\ UNCHANGED <<inputs, ref_start_idx, ref_end_idx, i, weight, pos_ws, neg_ws,
                   cached_pos_hs, cached_neg_hs, modules, passvars, fx>>
    /\ UNCHANGED patch

\* -------------------------------------------- the two passes called directly
\* the frame of the previous call is gone
FreshFrame ==
    /\ n_images' = 1 /\ prompt' = 0 /\ negative_prompt' = 0
    /\ n_pos' = 0 /\ n_neg' = 0 /\ denoising_steps' = 0
    /\ feedback_start' = 0 /\ feedback_end' = 0
    /\ min_weight' = 0 /\ max_weight' = 0
    /\ neg_scale' = 1 /\ pos_bottleneck_scale' = 1 /\ neg_bottleneck_scale' = 1
    /\ ref_start_idx' = 0 /\ ref_end_idx' = 0 /\ i' = 0 /\ weight' = 0
    /\ imgs' = <<>>
    /\ fx' = NoFx /\ trace' = <<>> /\ err' = "none"

\* generate has returned or raised: the caller goes on and the frame is dropped
CallerContinues ==
    /\ pc \in {"Done", "ArgError", "Raised"}
    /\ FreshFrame
    /\ pos_ws' = <<0, 0>> /\ neg_ws' = <<0, 0>>
    /\ cached_pos_hs' = NoList /\ cached_neg_hs' = NoList
    /\ lastVisit' = NoVisit
    /\ pc' = "Idle"
    /\ visited' = 0
    /\ UNCHANGED <<modules, pass>>
    /\ UNCHANGED patch

\* a caller's list of m cached tensors of sequence length c
ArgList(m, c) == SomeList([j \in 1..m |-> [ep |-> -1, i |-> -1, k |-> j, len |-> c]])
ArgLists == {NoList} \cup {ArgList(m, c) : m \in 0..NumBlocks, c \in 0..MaxCachedLen}

ApiCacheBegin ==
    /\ CanCall
    /\ FreshFrame
    /\ pos_ws' = <<0, 0>> /\ neg_ws' = <<0, 0>>
    /\ cached_pos_hs' = NoList /\ cached_neg_hs' = NoList
    /\ BeginCachePass
    /\ pc' = "ApiCache"
    /\ UNCHANGED patch

ApiCacheReturn ==
    /\ pc = "ApiCache" /\ pass = "cache" /\ visited = NumBlocks
    /\ forward' = RestoredForward
    /\ old_forward' = RestoredOld
    /\ clos' = [clos EXCEPT ![cur] = NoClosure]
    /\ pass' = "none"
    /\ pc' = "Idle"
    /\ cached_pos_hs' = NoList /\ cached_neg_hs' = NoList
    /\ pos_ws' = <<0, 0>> /\ neg_ws' = <<0, 0>>
    /\ lastVisit' = NoVisit
    /\ visited' = 0
    /\ UNCHANGED <<inputs, ref_start_idx, ref_end_idx, i, weight, imgs,
                   failures, err, fx, trace>>
    /\ UNCHANGED patch

ApiInjectBegin ==
    /\ CanCall
    /\ FreshFrame
    /\ \E cp \in ArgLists, cn \in ArgLists, pw \in PairSet, nw \in PairSet :
        /\ cached_pos_hs' = cp /\ cached_neg_hs' = cn
        /\ pos_ws' = pw /\ neg_ws' = nw
        /\ BeginInjectPass(cp, cn, pw, nw)
    /\ pc' = "ApiInject"
    /\ UNCHANGED patch

ApiInjectReturn ==
    /\ pc = "ApiInject" /\ pass \in {"inject", "direct"} /\ visited = NumBlocks
    /\ IF pass = "inject"
       THEN /\ forward' = RestoredForward
            /\ old_forward' = RestoredOld
            /\ clos' = [clos EXCEPT ![cur] = NoClosure]
       ELSE UNCHANGED <<forward, old_forward, clos>>
    /\ pass' = "none"
    /\ pc' = "Idle"
    /\ cached_pos_hs' = NoList /\ cached_neg_hs' = NoList
    /\ pos_ws' = <<0, 0>> /\ neg_ws' = <<0, 0>>
    /\ lastVisit' = NoVisit
    /\ visited' = 0
    /\ UNCHANGED <<inputs, ref_start_idx, ref_end_idx, i, weight, imgs,
                   failures, err, fx, trace>>
    /\ UNCHANGED patch

Next ==
    \/ GenInit \/ GenValidate \/ GenConditioning \/ GenLoopHead
    \/ GenCacheBegin \/ GenNoCache \/ GenCacheReturn
    \/ GenUnetBegin \/ GenUnetReturn \/ GenSchedulerStep \/ GenDecode
    \/ ApiCacheBegin \/ ApiCacheReturn \/ ApiInjectBegin \/ ApiInjectReturn
    \/ BlockVisit \/ UnetRaise \/ CallerContinues

Spec == Init /\ [][Next]_vars

\* ------------------------------------------- the schedule of a long trajectory
\* generate with one image and no references, past its asserts
SchedInit ==
    /\ pc = "Conditioning"
    /\ n_images = 1 /\ prompt = 1 /\ negative_prompt = 1
    /\ n_pos = 0 /\ n_neg = 0 /\ denoising_steps = 0
    /\ feedback_start = 0 /\ feedback_end = 0
    /\ min_weight = 0 /\ max_weight = 0
    /\ neg_scale = 1 /\ pos_bottleneck_scale = 1 /\ neg_bottleneck_scale = 1
    /\ ref_start_idx = 0 /\ ref_end_idx = 0 /\ i = 0 /\ weight = 0
    /\ pos_ws = <<0, 0>> /\ neg_ws = <<0, 0>>
    /\ cached_pos_hs = NoList /\ cached_neg_hs = NoList
    /\ imgs = <<>>
    /\ forward = [u \in Blocks |-> ORIG]
    /\ old_forward = [u \in Blocks |-> ABSENT]
    /\ clos = [c \in 1..MaxFailures |-> NoClosure]
    /\ failures = 0
    /\ pass = "none" /\ visited = 0 /\ err = "none"
    /\ lastVisit = NoVisit
    /\ fx = [NoFx EXCEPT !.seeded = TRUE, !.noise_sampled = TRUE]
    /\ trace = <<"Init">>
    /\ n_down = NumDown /\ NoPatch

SchedConditioning == Conditioning(0..MaxSchedSteps, SchedFracSet, {1})

SchedNext ==
    \/ SchedConditioning \/ GenLoopHead \/ GenNoCache \/ GenUnetBegin
    \/ BlockVisit \/ GenUnetReturn \/ GenSchedulerStep \/ GenDecode

SpecSched == SchedInit /\ [][SchedNext]_vars

\* ------------------------------- the patch loop on networks of any depth
\* unet_forward_with_cached_hidden_states up to its network call: the
\* arguments, then one step per block of down_blocks + [mid_block] + up_blocks
PairValues == {<<a, b>> : a \in 0..MaxPairWeight, b \in 0..MaxPairWeight}

RampInit ==
    /\ pc = "Idle"
    /\ n_images = 1 /\ prompt = 0 /\ negative_prompt = 0
    /\ n_pos = 0 /\ n_neg = 0 /\ denoising_steps = 0
    /\ feedback_start = 0 /\ feedback_end = 0
    /\ min_weight = 0 /\ max_weight = 0
    /\ neg_scale = 1 /\ pos_bottleneck_scale = 1 /\ neg_bottleneck_scale = 1
    /\ ref_start_idx = 0 /\ ref_end_idx = 0 /\ i = 0 /\ weight = 0
    /\ pos_ws = <<0, 0>> /\ neg_ws = <<0, 0>>
    /\ cached_pos_hs = NoList /\ cached_neg_hs = NoList
    /\ imgs = <<>>
    /\ forward = [u \in Blocks |-> ORIG]
    /\ old_forward = [u \in Blocks |-> ABSENT]
    /\ clos = [c \in 1..MaxFailures |-> NoClosure]
    /\ failures = 0
    /\ pass = "none" /\ visited = 0 /\ err = "none"
    /\ lastVisit = NoVisit
    /\ fx = NoFx
    /\ trace = <<>>
    /\ n_down \in 1..MaxDown /\ NoPatch

\* lines 250-268: the call with its timestep and weight pairs
PatchCall ==
    /\ pc = "Idle"
    /\ \E ts \in 0..MaxTimestep, pw \in PairValues, nw \in PairValues :
        /\ timestep' = ts
        /\ pos_weights' = pw /\ neg_weights' = nw
    /\ block' = 0 /\ pos_weight' = <<>> /\ neg_weight' = <<>>
    /\ pc' = "PatchLoop"
    /\ UNCHANGED <<inputs, locals, modules, passvars, fx, trace, n_down>>

\* lines 270-283, 336-337: the next block of the zip and its two defaults
PatchBlock ==
    /\ pc = "PatchLoop" /\ block < 2 * n_down + 1
    /\ block' = block + 1
    /\ pos_weight' = Append(pos_weight, ZippedWeights(pos_weights, n_down)[block + 1])
    /\ neg_weight' = Append(neg_weight, ZippedWeights(neg_weights, n_down)[block + 1])
    /\ UNCHANGED <<pc, inputs, locals, modules, passvars, fx, trace,
                   n_down, timestep, pos_weights, neg_weights>>

\* lines 339-347: the zip is exhausted, the network runs, the patch is undone
PatchReturn ==
    /\ pc = "PatchLoop" /\ block = 2 * n_down + 1
    /\ timestep' = 0 /\ pos_weights' = <<0, 0>> /\ neg_weights' = <<0, 0>>
    /\ block' = 0 /\ pos_weight' = <<>> /\ neg_weight' = <<>>
    /\ pc' = "Idle"
    /\ UNCHANGED <<inputs, locals, modules, passvars, fx, trace, n_down>>

RampNext == PatchCall \/ PatchBlock \/ PatchReturn

SpecRamp == RampInit /\ [][RampNext]_vars

\* ================================================================ claims

\* C1: in a sequence of cache passes and injection passes that all returned,
\* whenever no pass is running every attn1 has its original forward and no
\* old_forward, and a direct network pass made then is not intercepted.
C1_RestoredAfterReturn ==
    /\ (failures = 0 /\ pass = "none") => Unpatched
    /\ (failures = 0 /\ pass = "direct" /\ lastVisit.u > 0)
          => lastVisit.pos.mode = "plain" /\ lastVisit.neg.mode = "plain"

C1_Witness ==
    /\ pc = "SchedulerStep" /\ i = 1 /\ failures = 0
    /\ lastVisit.u = NumBlocks /\ lastVisit.pos.mode = "weighted"
    /\ Unpatched

\* C2: the replaced forward is restored on every exit path of a cache or
\* injection pass, also when the network pass raises: whenever control is
\* with the caller the attention modules are unpatched.
C2_RestoredOnEveryExit == pass = "none" => Unpatched

\* r is Python's round(p / q): nearest integer, a tie goes to the even one
IsRound(r, p, q) ==
    /\ 2 * (q * r - p) <= q
    /\ 2 * (p - q * r) <= q
    /\ (2 * (q * r - p) = q \/ 2 * (p - q * r) = q) => r % 2 = 0

WeightKnown == {"Branch", "InCache", "CallUnet", "InUnet", "SchedulerStep"}

\* C3: at step i of N timesteps the base weight is max_weight when
\* round(N*feedback_start) <= i <= round(N*feedback_end) and min_weight
\* otherwise; with N=20, 0.33, 0.66 the steps 7..13 use max_weight.
C3_BaseWeightInWindow ==
    pc \in WeightKnown =>
        /\ \E lo \in 0..denoising_steps, hi \in 0..denoising_steps :
              /\ IsRound(lo, denoising_steps * feedback_start, 100)
              /\ IsRound(hi, denoising_steps * feedback_end, 100)
              /\ weight = IF lo <= i /\ i <= hi THEN max_weight ELSE min_weight
        /\ (denoising_steps = 20 /\ feedback_start = 33 /\ feedback_end = 66)
              => weight = IF i \in 7..13 THEN max_weight ELSE min_weight

C3_Witness ==
    /\ pc = "Branch" /\ denoising_steps = 20
    /\ feedback_start = 33 /\ feedback_end = 66
    /\ i = 13 /\ min_weight = 0 /\ max_weight = 1 /\ weight = 1

\* C4: when a prompt list length differs from n_images, generate fails
\* before any seeding, noise sampling, reference encoding, prompt encoding
\* or network pass.
C4_FailsBeforeAnyComputation ==
    pc = "ArgError" =>
        /\ ~fx.seeded /\ ~fx.noise_sampled /\ ~fx.refs_encoded
        /\ ~fx.prompts_encoded /\ ~fx.unet_called

GenRunning == {"Validate", "Conditioning", "LoopHead", "Branch", "InCache",
               "CallUnet", "InUnet", "SchedulerStep", "Decode", "Done"}
InTrace(e) == \E j \in 1..Len(trace) : trace[j] = e

\* C5: a step of generate runs a cache pass followed by an injection pass
\* exactly when a reference latent exists and the base weight is > 0;
\* otherwise the network is called directly and no attn1 is patched; with
\* no liked and no disliked image no step runs a cache or injection pass.
C5_FeedbackIffRefsAndWeight ==
    /\ pc = "InCache" => (n_pos + n_neg > 0 /\ weight > 0)
    /\ pc = "InUnet" =>
          /\ pass = "inject" <=> (n_pos + n_neg > 0 /\ weight > 0)
          /\ trace[Len(trace) - 1] = "ReferenceCache"
                <=> (n_pos + n_neg > 0 /\ weight > 0)
          /\ pass = "direct" =>
                /\ \A u \in Blocks : forward[u] # cur
                /\ failures = 0 => Unpatched
    /\ (pc \in GenRunning /\ n_pos = 0 /\ n_neg = 0) =>
          /\ pass \notin {"cache", "inject"}
          /\ ~InTrace("ReferenceCache")

C5_Witness ==
    /\ pc = "InUnet" /\ pass = "inject" /\ visited = NumBlocks
    /\ i = 1 /\ n_pos = 0 /\ n_neg = 1 /\ weight = 1

InWindow == ref_start_idx <= i /\ i <= ref_end_idx

\* C6 as stated: the cache pass and the injection run only at steps inside
\* the feedback window (and with references); outside it the network is
\* called directly, whatever min_weight and max_weight are.
C6_FeedbackOnlyInWindow ==
    /\ (pc = "InCache" \/ (pc = "InUnet" /\ pass = "inject"))
          => (n_pos + n_neg > 0 /\ InWindow)
    /\ (pc = "InUnet" /\ ~InWindow) => pass = "direct"

\* C6 amended: the cache pass and the injection run only at steps with
\* references whose base weight (max_weight inside the window, min_weight
\* outside) is > 0; outside the window the network is called directly
\* exactly when there is no reference or min_weight <= 0.
C6_FeedbackByWindowWeight ==
    /\ (pc = "InCache" \/ (pc = "InUnet" /\ pass = "inject"))
          => /\ n_pos + n_neg > 0
             /\ IF InWindow THEN max_weight > 0 ELSE min_weight > 0
    /\ (pc = "InUnet" /\ ~InWindow)
          => (pass = "direct" <=> (n_pos + n_neg = 0 \/ min_weight <= 0))

C6_Witness ==
    /\ pc = "InUnet" /\ pass = "inject" /\ ~InWindow
    /\ min_weight = 1 /\ max_weight = 0

RECURSIVE DenoiseSteps(_)
DenoiseSteps(n) ==
    IF n = 0 THEN <<>> ELSE <<"Denoise", "SchedulerStep">> \o DenoiseSteps(n - 1)

NotReferenceCache(e) == e # "ReferenceCache"

\* the phases a generate call at pc has been through, ReferenceCache aside
PhaseLog ==
    IF pc \in {"Validate", "Conditioning"} THEN <<"Init">>
    ELSE IF pc \in {"InUnet", "SchedulerStep"}
    THEN <<"Init", "Conditioning">> \o DenoiseSteps(i) \o <<"Denoise">>
    ELSE IF pc = "Done"
    THEN <<"Init", "Conditioning">> \o DenoiseSteps(denoising_steps) \o <<"Decode">>
    ELSE <<"Init", "Conditioning">> \o DenoiseSteps(i)

\* the running generate call has a next step
HasNextStep ==
    /\ pc = "Validate" => ENABLED GenValidate
    /\ pc = "Conditioning" => ENABLED GenConditioning
    /\ pc = "LoopHead" => ENABLED GenLoopHead
    /\ pc = "Branch" => ENABLED (GenCacheBegin \/ GenNoCache)
    /\ pc = "InCache" => ENABLED (BlockVisit \/ GenCacheReturn)
    /\ pc = "CallUnet" => ENABLED GenUnetBegin
    /\ pc = "InUnet" => ENABLED (BlockVisit \/ GenUnetReturn)
    /\ pc = "SchedulerStep" => ENABLED GenSchedulerStep
    /\ pc = "Decode" => ENABLED GenDecode

\* C7: a generate call runs Init, Conditioning, then for each of the N
\* timesteps in order one Denoise and one SchedulerStep, a step's
\* ReferenceCache directly before its Denoise, then Decode once, and ends
\* in Done with one image per requested sample in batch order; until then
\* it always has a next step, none skipped or repeated.
C7_PhaseOrder ==
    pc \in GenRunning =>
        /\ SelectSeq(trace, NotReferenceCache) = PhaseLog
        /\ \A j \in 1..Len(trace) :
              trace[j] = "ReferenceCache"
                => /\ trace[j - 1] \in {"Conditioning", "SchedulerStep"}
                   /\ j < Len(trace) => trace[j + 1] = "Denoise"
                   /\ j = Len(trace) => pc \in {"InCache", "CallUnet"}
        /\ i <= denoising_steps
        /\ pc = "Decode" => i = denoising_steps
        /\ HasNextStep
        /\ pc = "Done" => /\ Len(imgs) = n_images
                          /\ \A j \in 1..n_images : imgs[j] = j

C7_Witness ==
    /\ pc = "Done" /\ denoising_steps = 2 /\ n_images = 2
    /\ trace[3] = "Denoise" /\ trace[5] = "ReferenceCache"

\* what the injection pass of step i has still to consume of n references
Remaining(n) ==
    [j \in 1..(NumBlocks - visited) |->
        [ep |-> failures, i |-> i, k |-> visited + j,
         len |-> n * SeqLen(visited + j)]]

PoppedAt(n) ==
    [ep |-> failures, i |-> i, k |-> lastVisit.u, len |-> n * SeqLen(lastVisit.u)]

\* C8: in a step of generate the k-th block of the injection pass pops from
\* each present cached sequence the tensor the k-th block of the step's
\* cache pass captured, each tensor once, and the present sequences are
\* empty when the injection pass ends.
C8_CaptureOrderIsInjectionOrder ==
    /\ (pc = "InUnet" /\ pass = "inject") =>
          /\ cached_pos_hs.present => cached_pos_hs.items = Remaining(n_pos)
          /\ cached_neg_hs.present => cached_neg_hs.items = Remaining(n_neg)
          /\ (lastVisit.u > 0 /\ cached_pos_hs.present)
                => lastVisit.pos.popped = PoppedAt(n_pos)
          /\ (lastVisit.u > 0 /\ cached_neg_hs.present)
                => lastVisit.neg.popped = PoppedAt(n_neg)
    /\ pc = "SchedulerStep" =>
          /\ cached_pos_hs.present => cached_pos_hs.items = <<>>
          /\ cached_neg_hs.present => cached_neg_hs.items = <<>>

C8_Witness ==
    /\ pc = "InUnet" /\ pass = "inject" /\ visited = 2 /\ i = 1
    /\ cached_pos_hs.present /\ cached_neg_hs.present
    /\ lastVisit.pos.popped.k = 2

FallsBack(a) == (a.mode # "none" /\ a.cache \in {"absent", "empty"}) => a.mode = "plain"

\* C9: in an injection pass a half whose cached sequence is absent, or
\* present but exhausted, is computed by ordinary self-attention on that
\* half and the pass goes on without raising.
C9_AbsentOrExhaustedFallsBack ==
    (lastVisit.u > 0 /\ pc \in {"InUnet", "ApiInject", "Raised"}) =>
        /\ FallsBack(lastVisit.pos) /\ FallsBack(lastVisit.neg)
        /\ err # "IndexError"

\* the weighted attention call a of block u: own hidden state as query,
\* own + cached positions as keys, one weight per key, 1.0 then bw
WeightPerKey(a, u) ==
    /\ a.qlen = SeqLen(u)
    /\ a.kvlen = a.qlen + a.popped.len
    /\ Len(a.w) = a.kvlen
    /\ \A j \in 1..Len(a.w) : a.w[j] = IF j <= a.qlen THEN One ELSE a.bw

BlockWeightUsed ==
    pass = "inject" =>
        /\ lastVisit.pos.mode = "weighted"
              => lastVisit.pos.bw = BlockWeight(pos_ws, lastVisit.u)
        /\ lastVisit.neg.mode = "weighted"
              => lastVisit.neg.bw = BlockWeight(neg_ws, lastVisit.u)

RampAt(ws, n, u, given) ==
    IF u <= n THEN n * ws[1] + (u - 1) * (ws[2] - ws[1])
    ELSE IF u = n + 1 THEN n * ws[2]
    ELSE given[(n - 1 - (u - n - 2)) + 1]

\* C11: with n down blocks and n up blocks, every block the patch loop has
\* gone through was given, for the positive and for the negative pair alike,
\* the weight w_own + k * (w_bottleneck - w_own) / n as down block k, exactly
\* w_bottleneck as the bottleneck, and as up block j the weight of down block
\* n - 1 - j; the timestep of the call plays no part in it.
C11_RampByDepth ==
    pc = "PatchLoop" =>
        /\ Len(pos_weight) = block /\ Len(neg_weight) = block
        /\ \A u \in 1..block :
              /\ pos_weight[u] = RampAt(pos_weights, n_down, u, pos_weight)
              /\ neg_weight[u] = RampAt(neg_weights, n_down, u, neg_weight)
        /\ pos_weights = neg_weights => pos_weight = neg_weight

\* a descending positive ramp and a different negative ramp, at a later
\* timestep, on a network deep enough for the mirror to show, fully patched
C11_Witness ==
    /\ pc = "PatchLoop" /\ block = 2 * n_down + 1
    /\ n_down >= 2 /\ timestep > 0
    /\ pos_weights[1] > pos_weights[2]
    /\ neg_weights[1] # neg_weights[2] /\ neg_weights # pos_weights
    /\ pos_weight[1] # pos_weight[2]

TypeOK == /\ failures \in 0..MaxFailures
          /\ visited \in 0..NumBlocks

====
